---- MODULE Spec2Model ----
(***************************************************************************)
(* A model of mathx's dependency-free (no_std) numeric kernel,             *)
(* src/src/math.rs: the Newton square root, the cast-based                 *)
(* trunc/floor/ceil/frac family, the CORDIC sine/cosine with its recursive *)
(* range reduction, and the scalar helpers (abs, sign, approx, clamp,      *)
(* lerp, map, pow_i32). The host-backed (std) variant is modelled where    *)
(* its code differs from the no_std one.                                   *)
(* One Tween of src/src/curves/tween.rs, which is built on abs and clamp,  *)
(* is modelled as a second state machine (TweenSpec).                      *)
(*                                                                         *)
(* Every f32 of the program is an IEEE-754 binary32 value, modelled        *)
(* exactly: a record [k, s, m, e] with k the class ("fin", "inf", "nan"),  *)
(* s the sign bit, and for a finite value |v| = m * 2^e with               *)
(* 2^23 <= m < 2^24 (normal), or e = -149 and m < 2^23 (subnormal, zero).  *)
(* The arithmetic operators round to nearest, ties to even, as the         *)
(* hardware does.                                                          *)
(***************************************************************************)
EXTENDS Integers, Sequences, FiniteSets, TLC

(***************************************************************************)
(* binary32: format parameters                                             *)
(***************************************************************************)
\* number of significand bits of an f32 (implicit bit included)
MantBits == 24
\* exponent of the least significant bit of the smallest subnormal
EMin == -149
\* exponent of the least significant bit of the largest finite f32
EMax == 104

Two23 == 2^(MantBits - 1)
Two24 == 2^MantBits

Fin(s, m, e) == [k |-> "fin", s |-> s, m |-> m, e |-> e]
NaN == [k |-> "nan", s |-> 0, m |-> 0, e |-> 0]
Inf(s) == [k |-> "inf", s |-> s, m |-> 0, e |-> 0]
Zero(s) == Fin(s, 0, EMin)

IsNaN(a) == a.k = "nan"
IsInf(a) == a.k = "inf"
IsFin(a) == a.k = "fin"
IsZero(a) == a.k = "fin" /\ a.m = 0

\* number of bits of a natural number below 2^31, searched from n bits down
RECURSIVE BitLenFrom(_, _)
BitLenFrom(M, n) ==
    IF n = 0 \/ M >= 2^(n - 1) THEN n ELSE BitLenFrom(M, n - 1)

BitLen(M) == BitLenFrom(M, 31)

\* The f32 nearest to (-1)^s * (M + f) * 2^E, where 0 <= M < 2^31 and the
\* discarded tail f is 0 (sticky = FALSE) or 0 < f < 1 (sticky = TRUE):
\* round to nearest, ties to even; gradual underflow; overflow to infinity.
Round(s, M, E, sticky) ==
    IF M = 0 THEN Zero(s)
    ELSE
    LET nb == BitLen(M)
        sh0 == nb - MantBits
        sh == IF E + sh0 < EMin THEN EMin - E ELSE sh0
    IN  IF sh <= 0 THEN
            IF E + sh > EMax THEN Inf(s) ELSE Fin(s, M * 2^(-sh), E + sh)
        ELSE
        LET q == IF sh >= 31 THEN 0 ELSE M \div 2^sh
            r == IF sh >= 31 THEN M ELSE M % 2^sh
            up == IF sh >= 32 THEN FALSE
                  ELSE LET half == 2^(sh - 1)
                       IN  r > half \/ (r = half /\ (sticky \/ q % 2 = 1))
            q2 == IF up THEN q + 1 ELSE q
            m2 == IF q2 = Two24 THEN Two23 ELSE q2
            e2 == IF q2 = Two24 THEN E + sh + 1 ELSE E + sh
        IN  IF m2 = 0 THEN Zero(s)
            ELSE IF e2 > EMax THEN Inf(s)
            ELSE Fin(s, m2, e2)

\* unary minus on f32: flips the sign bit
FNeg(a) == IF IsNaN(a) THEN NaN ELSE [a EXCEPT !.s = 1 - a.s]

\* magnitude order of two finite values (canonical form: (e, m) is monotone)
MagLt(a, b) == a.e < b.e \/ (a.e = b.e /\ a.m < b.m)

\* a < b on f32 (false when either is NaN; -0.0 and 0.0 are equal)
FLt(a, b) ==
    /\ ~IsNaN(a) /\ ~IsNaN(b)
    /\ ~(IsZero(a) /\ IsZero(b))
    /\ IF a.s # b.s THEN a.s = 1
       ELSE IF a.s = 0
            THEN IF IsInf(a) THEN FALSE ELSE IF IsInf(b) THEN TRUE ELSE MagLt(a, b)
            ELSE IF IsInf(b) THEN FALSE ELSE IF IsInf(a) THEN TRUE ELSE MagLt(b, a)

\* a == b on f32
FEq(a, b) ==
    /\ ~IsNaN(a) /\ ~IsNaN(b)
    /\ (IsZero(a) /\ IsZero(b)) \/ a = b

FLe(a, b) == FLt(a, b) \/ FEq(a, b)
FGt(a, b) == FLt(b, a)

\* sum of two finite non-zero values, a the one of larger magnitude
AddMag(a, b) ==
    LET d == a.e - b.e
    IN  IF d <= 6 THEN
            LET A == a.m * 2^d
                R == IF a.s = b.s THEN A + b.m ELSE A - b.m
            IN  IF R = 0 THEN Zero(0) ELSE Round(a.s, R, b.e, FALSE)
        ELSE
            LET A == a.m * 8
                B == IF d - 3 >= 31 THEN 0 ELSE b.m \div 2^(d - 3)
                lost == IF d - 3 >= 31 THEN TRUE ELSE b.m % 2^(d - 3) # 0
                R == IF a.s = b.s THEN A + B
                     ELSE IF lost THEN A - B - 1 ELSE A - B
            IN  Round(a.s, R, a.e - 3, lost)

\* a + b on f32
FAdd(a, b) ==
    IF IsNaN(a) \/ IsNaN(b) THEN NaN
    ELSE IF IsInf(a) THEN (IF IsInf(b) /\ a.s # b.s THEN NaN ELSE a)
    ELSE IF IsInf(b) THEN b
    ELSE IF IsZero(a) /\ IsZero(b) THEN (IF a.s = 1 /\ b.s = 1 THEN Zero(1) ELSE Zero(0))
    ELSE IF IsZero(a) THEN b
    ELSE IF IsZero(b) THEN a
    ELSE IF MagLt(a, b) THEN AddMag(b, a) ELSE AddMag(a, b)

\* a - b on f32
FSub(a, b) == FAdd(a, FNeg(b))

\* a finite non-zero value with its significand shifted up to 24 bits
\* (the exponent may then lie below EMin: an intermediate form only)
Norm(a) ==
    LET sh == MantBits - BitLen(a.m)
    IN  [a EXCEPT !.m = a.m * 2^sh, !.e = a.e - sh]

\* a * b on f32
FMul(a, b) ==
    IF IsNaN(a) \/ IsNaN(b) THEN NaN
    ELSE LET s == IF a.s = b.s THEN 0 ELSE 1
    IN  IF IsInf(a) \/ IsInf(b)
        THEN (IF IsZero(a) \/ IsZero(b) THEN NaN ELSE Inf(s))
        ELSE IF IsZero(a) \/ IsZero(b) THEN Zero(s)
        ELSE
        LET x == Norm(a)
            y == Norm(b)
            ah == x.m \div 4096
            al == x.m % 4096
            bh == y.m \div 4096
            bl == y.m % 4096
            mid == ah * bl + al * bh
            low == (mid % 4096) * 4096 + al * bl
            hi == ah * bh + mid \div 4096 + low \div Two24
            lo == low % Two24
            \* the 48-bit product is hi * 2^24 + lo; keep its top 30 bits
            M == hi * 64 + lo \div 262144
            E == x.e + y.e + 18
        IN  Round(s, M, E, lo % 262144 # 0)

\* long division: <<quotient, remainder>> of n * 2^k by d, one bit per step
RECURSIVE DivBits(_, _, _, _)
DivBits(q, r, d, k) ==
    IF k = 0 THEN <<q, r>>
    ELSE LET r2 == 2 * r
         IN  IF r2 >= d THEN DivBits(2 * q + 1, r2 - d, d, k - 1)
             ELSE DivBits(2 * q, r2, d, k - 1)

\* a / b on f32
FDiv(a, b) ==
    IF IsNaN(a) \/ IsNaN(b) THEN NaN
    ELSE LET s == IF a.s = b.s THEN 0 ELSE 1
    IN  IF IsInf(a) THEN (IF IsInf(b) THEN NaN ELSE Inf(s))
        ELSE IF IsInf(b) THEN Zero(s)
        ELSE IF IsZero(b) THEN (IF IsZero(a) THEN NaN ELSE Inf(s))
        ELSE IF IsZero(a) THEN Zero(s)
        ELSE
        LET x == Norm(a)
            y == Norm(b)
            qr == DivBits(x.m \div y.m, x.m % y.m, y.m, 26)
            E == x.e - y.e - 26
        IN  Round(s, qr[1], E, qr[2] # 0)

(***************************************************************************)
(* Casts between f32 and i32 (Rust `as`)                                   *)
(***************************************************************************)
I32Max == 2147483647
I32Min == -I32Max - 1

\* `value as i32`: truncates toward zero, saturates at the i32 range, NaN -> 0
F32ToI32(a) ==
    IF IsNaN(a) THEN 0
    ELSE IF IsInf(a) \/ a.e >= 8 THEN (IF a.s = 1 THEN I32Min ELSE I32Max)
    ELSE LET mag == IF a.e >= 0 THEN a.m * 2^a.e
                    ELSE IF a.e <= -31 THEN 0
                    ELSE a.m \div 2^(-a.e)
         IN  IF a.s = 1 THEN -mag ELSE mag

\* `n as f32`: the nearest f32 to an i32
I32ToF32(n) ==
    IF n = I32Min THEN Fin(1, Two23, 8)
    ELSE IF n < 0 THEN Round(1, -n, 0, FALSE)
    ELSE Round(0, n, 0, FALSE)

(***************************************************************************)
(* f32 literals of math.rs, each the binary32 nearest to the decimal       *)
(***************************************************************************)
F0 == Zero(0)                          \* 0.0
FNeg0 == Zero(1)                       \* -0.0
F1 == Fin(0, Two23, -23)               \* 1.0
F2 == Fin(0, Two23, -22)               \* 2.0
PI == Fin(0, 13176795, -22)            \* 3.14159265359
PI_OVER_2 == Fin(0, 13176795, -23)     \* 1.570796326
TWO_PI == Fin(0, 13176795, -21)        \* 6.28318530718
CordicGain == Fin(0, 10188013, -24)    \* 0.6072529
SqrtEps == Fin(0, 8796093, -43)        \* 0.000001
RangeEps == Fin(0, 13743895, -37)      \* 0.0001 (assert_range!)
ApproxEps == Fin(0, 8796093, -43)      \* 0.000001 (approx, no_std)
StdApproxEps == Fin(0, 10995116, -40)  \* 0.00001 (approx, std)

\* const ITERATIONS: i32 = 16
ITERATIONS == 16
\* let mut max = 50
SqrtMaxIter == 50

(***************************************************************************)
(* Scalar helpers                                                          *)
(***************************************************************************)
\* Math::abs
Abs(value) == IF FLt(value, F0) THEN FNeg(value) ELSE value

\* Math::approx_epsilon
ApproxEpsilon(a, b, epsilon) == FLt(Abs(FSub(a, b)), epsilon)

\* an abs_i32 that returns its argument unchanged
AbsI32Identity(value) == value

\* Math::abs_i32 where the negation wraps (a build without overflow checks)
AbsI32(value) ==
    IF value < 0 THEN (IF value = I32Min THEN I32Min ELSE -value) ELSE value

\* Math::abs_i32 panics ("attempt to negate with overflow") in a build with
\* overflow checks
AbsI32Panics(value, overflow_checks) == overflow_checks /\ value = I32Min

\* f32::clamp panics unless min <= max (so also when a bound is NaN)
ClampPanics(min, max) == ~FLe(min, max)

\* a clamp that applies the lower bound only
ClampBelowOnly(value, min, max) == IF FLt(value, min) THEN min ELSE value

\* Math::clamp, when it returns
Clamp(value, min, max) ==
    LET x == IF FLt(value, min) THEN min ELSE value
    IN  IF FGt(x, max) THEN max ELSE x

\* the loop `for _ in 1..n { result *= a }` of pow_i32
RECURSIVE PowLoop(_, _, _, _)
PowLoop(result, a, k, n) ==
    IF k >= n THEN result ELSE PowLoop(FMul(result, a), a, k + 1, n)

\* Math::pow_i32
PowI32(a, b) ==
    IF b = 0 THEN F1
    ELSE LET result == PowLoop(a, a, 1, AbsI32(b))
         IN  IF b < 0 THEN FDiv(F1, result) ELSE result

\* Math::approx (no_std)
Approx(a, b) == ApproxEpsilon(a, b, ApproxEps)

\* a sign that reports zero as 0.0
SignWithZero(value) ==
    IF FLt(value, F0) THEN FNeg(F1) ELSE IF FEq(value, F0) THEN F0 ELSE F1

\* Math::sign
Sign(value) == IF FLt(value, F0) THEN FNeg(F1) ELSE F1

\* Math::map
Map(value, in_start, in_end, out_start, out_end) ==
    FAdd(FDiv(FMul(FSub(value, in_start), FSub(out_end, out_start)),
              FSub(in_end, in_start)),
         out_start)

\* Math::lerp_unclamped
LerpUnclamped(a, b, t) == FAdd(a, FMul(t, FSub(b, a)))

\* Math::lerp
Lerp(a, b, t) == LerpUnclamped(a, b, Clamp(t, F0, F1))

(***************************************************************************)
(* trunc / floor / ceil / frac                                             *)
(***************************************************************************)
\* Math::trunc
Trunc(value) == I32ToF32(F32ToI32(value))

\* Math::ceil
Ceil(value) ==
    LET trunc == Trunc(value)
    IN  IF FEq(trunc, value) THEN trunc
        ELSE FAdd(trunc, IF FLt(value, F0) THEN F0 ELSE F1)

\* Math::floor
Floor(value) ==
    LET trunc == Trunc(value)
    IN  IF FEq(trunc, value) THEN trunc
        ELSE FSub(trunc, IF FLt(value, F0) THEN F1 ELSE F0)

\* Math::frac
Frac(value) == FSub(value, Floor(value))

(***************************************************************************)
(* The host-backed (std) variant, where its code differs from no_std       *)
(***************************************************************************)
\* Math::approx (std)
StdApprox(a, b) == ApproxEpsilon(a, b, StdApproxEps)

\* Math::abs (std): f32::abs clears the sign bit
StdAbs(value) == IF IsNaN(value) THEN NaN ELSE [value EXCEPT !.s = 0]

\* Math::trunc (std): f32::trunc drops the fraction bits, keeps the sign
StdTrunc(value) ==
    IF ~IsFin(value) \/ value.e >= 0 THEN value
    ELSE IF value.e <= -MantBits THEN Zero(value.s)
    ELSE Round(value.s, value.m \div 2^(-value.e), 0, FALSE)

\* Math::floor (std): f32::floor
StdFloor(value) ==
    LET trunc == StdTrunc(value)
    IN  IF ~IsFin(value) \/ trunc = value THEN value
        ELSE IF value.s = 1 THEN FSub(trunc, F1) ELSE trunc

\* Math::ceil (std): f32::ceil
StdCeil(value) ==
    LET trunc == StdTrunc(value)
    IN  IF ~IsFin(value) \/ trunc = value THEN value
        ELSE IF value.s = 1 THEN trunc ELSE FAdd(trunc, F1)

\* Math::frac (std)
StdFrac(value) == FSub(value, StdFloor(value))

\* integer square root, one bit per step: <<root, remainder>> of n * 4^14,
\* the radicand read two bits at a time from pair k down to pair 0
RECURSIVE SqrtBits(_, _, _, _)
SqrtBits(q, r, n, k) ==
    IF k < 0 THEN <<q, r>>
    ELSE LET pair == IF k >= 14 THEN (n \div 4^(k - 14)) % 4 ELSE 0
             r2 == 4 * r + pair
             t == 4 * q + 1
         IN  IF r2 >= t THEN SqrtBits(2 * q + 1, r2 - t, n, k - 1)
             ELSE SqrtBits(2 * q, r2, n, k - 1)

\* Math::sqrt (std): f32::sqrt, the correctly rounded square root
StdSqrt(value) ==
    IF IsNaN(value) THEN NaN
    ELSE IF IsZero(value) THEN value
    ELSE IF value.s = 1 THEN NaN
    ELSE IF IsInf(value) THEN value
    ELSE LET n == Norm(value)
             odd == n.e % 2 # 0
             m2 == IF odd THEN 2 * n.m ELSE n.m
             e2 == IF odd THEN n.e - 1 ELSE n.e
             qr == SqrtBits(0, 0, m2, 26)
         IN  Round(0, qr[1], e2 \div 2 - 14, qr[2] # 0)

(***************************************************************************)
(* CORDIC                                                                  *)
(***************************************************************************)
AtanTable ==
    << Fin(0, 13176795, -24),   \* 0.7853982
       Fin(0, 15557432, -25),   \* 0.4636476
       Fin(0, 16440240, -26),   \* 0.24497867
       Fin(0, 16690645, -27),   \* 0.124354996
       Fin(0, 16755422, -28),   \* 0.06241881
       Fin(0, 16771758, -29),   \* 0.031239834
       Fin(0, 16775851, -30),   \* 0.015623729
       Fin(0, 16776875, -31),   \* 0.007812341
       Fin(0, 16777131, -32),   \* 0.0039062302
       Fin(0, 16777195, -33),   \* 0.0019531226
       Fin(0, 16777211, -34),   \* 0.0009765622
       Fin(0, 16777215, -35),   \* 0.00048828122
       Fin(0, 8388608, -35),    \* 0.00024414063
       Fin(0, 8388608, -36),    \* 0.00012207031
       Fin(0, 8388608, -37),    \* 0.000061035156
       Fin(0, 8388608, -38) >>  \* 0.000030517578

\* a table lookup that reads one entry too far
GetAtanOffByOne(index) ==
    IF index >= 0 /\ index + 1 < Len(AtanTable) THEN AtanTable[index + 2]
                                                 ELSE F0

\* Math::get_atan_for_cordic
GetAtanForCordic(index) ==
    IF index >= 0 /\ index < Len(AtanTable) THEN AtanTable[index + 1] ELSE F0

\* a negate_tuple that forgets the second component
NegateSineOnly(tuple) == <<FNeg(tuple[1]), tuple[2]>>

\* Math::negate_tuple
NegateTuple(tuple) == <<FNeg(tuple[1]), FNeg(tuple[2])>>

\* a range test that misses the angles below -PI_OVER_2
OutOfRangeAbove(a) == FGt(a, PI_OVER_2)

\* the range test at the head of Math::cordic
OutOfRange(a) == FLt(a, FNeg(PI_OVER_2)) \/ FGt(a, PI_OVER_2)

\* a reduction that moves the angle by a quarter turn only
ReducedAngleByHalfPi(a) ==
    IF FLt(a, F0) THEN FAdd(a, PI_OVER_2) ELSE FSub(a, PI_OVER_2)

\* the argument of the recursive call of Math::cordic
ReducedAngle(a) == IF FLt(a, F0) THEN FAdd(a, PI) ELSE FSub(a, PI)

\* a direction that turns forward when z is exactly zero
DirectionZeroForward(zz) == IF FLt(zz, F0) THEN FNeg(F1) ELSE F1

\* let di = if z <= 0.0 { -1.0 } else { 1.0 }
Direction(zz) == IF FLe(zz, F0) THEN FNeg(F1) ELSE F1

\* a micro-rotation that computes new_sin from the already updated cos
RotateInPlace(c, sn, zz, idx) ==
    LET di == Direction(zz)
        pow == PowI32(F2, -idx)
        new_cos == FSub(c, FMul(FMul(sn, di), pow))
        new_sin == FAdd(sn, FMul(FMul(new_cos, di), pow))
    IN  [cos |-> new_cos, sin |-> new_sin,
         z |-> FSub(zz, FMul(di, GetAtanForCordic(idx)))]

\* a micro-rotation that scales by 2^-(i+1) instead of 2^-i
RotateHalfScale(c, sn, zz, idx) ==
    LET di == Direction(zz)
        pow == PowI32(F2, -(idx + 1))
        new_cos == FSub(c, FMul(FMul(sn, di), pow))
        new_sin == FAdd(sn, FMul(FMul(c, di), pow))
    IN  [cos |-> new_cos, sin |-> new_sin,
         z |-> FSub(zz, FMul(di, GetAtanForCordic(idx)))]

\* one micro-rotation: the body of `for i in 0..ITERATIONS`
Rotate(c, sn, zz, idx) ==
    LET di == Direction(zz)
        pow == PowI32(F2, -idx)
        new_cos == FSub(c, FMul(FMul(sn, di), pow))
        new_sin == FAdd(sn, FMul(FMul(c, di), pow))
    IN  [cos |-> new_cos, sin |-> new_sin,
         z |-> FSub(zz, FMul(di, GetAtanForCordic(idx)))]

\* Math::cordic as a function of the angle. The call is evaluated in the
\* three phases it goes through, each on a record of the locals in play.
\* The body of the rotation loop on the locals [cos, sin, z, i]:
RotateStep(st) ==
    LET r == Rotate(st.cos, st.sin, st.z, st.i)
    IN  [cos |-> r.cos, sin |-> r.sin, z |-> r.z, i |-> st.i + 1]

\* `for i in 0..ITERATIONS { .. }` and `return (sin, cos)`
RECURSIVE CordicLoop(_)
CordicLoop(st) ==
    IF st.i >= ITERATIONS THEN <<st.sin, st.cos>> ELSE CordicLoop(RotateStep(st))

\* the chain of recursive calls down to an angle in range: the angle of the
\* innermost call and the number of calls then pending
RECURSIVE CordicDescend(_)
CordicDescend(st) ==
    IF OutOfRange(st.angle)
    THEN CordicDescend([angle |-> ReducedAngle(st.angle), depth |-> st.depth + 1])
    ELSE st

\* each pending call returns negate_tuple of what its callee returned
RECURSIVE CordicUnwind(_)
CordicUnwind(st) ==
    IF st.depth = 0 THEN st.ret
    ELSE CordicUnwind([ret |-> NegateTuple(st.ret), depth |-> st.depth - 1])

\* Math::cordic (defined where the recursion ends)
Cordic(a) ==
    LET inner == CordicDescend([angle |-> a, depth |-> 0])
        seed == [cos |-> CordicGain, sin |-> F0, z |-> inner.angle, i |-> 0]
    IN  CordicUnwind([ret |-> CordicLoop(seed), depth |-> inner.depth])

\* Math::sin, Math::cos and Math::sin_cos as functions of the angle
Sin(a) == Cordic(a)[1]
Cos(a) == Cordic(a)[2]
SinCos(a) == Cordic(a)

\* a result selection that hands sin the cosine and cos the sine
TrigResultSwapped(o, tuple) ==
    IF o = "sin" THEN tuple[2] ELSE IF o = "cos" THEN tuple[1] ELSE tuple

\* what each of sin (.0), cos (.1) and sin_cos (the pair) returns of the
\* tuple that cordic returned
TrigResult(o, tuple) ==
    IF o = "sin" THEN tuple[1] ELSE IF o = "cos" THEN tuple[2] ELSE tuple

(***************************************************************************)
(* sqrt                                                                    *)
(***************************************************************************)
\* a domain test that also rejects zero
SqrtIsNotPositive(value) == FLe(value, FNeg0)

\* if value < -0.0 { return f32::NAN; }
SqrtIsNegative(value) == FLt(value, FNeg0)

\* if value == 0.0 { return 0.0; }
SqrtIsZero(value) == FEq(value, F0)

\* the residual value - x * x that both tests of the loop read
Residual(value, xx) == FSub(value, FMul(xx, xx))

\* a loop guard that lets the budget run one past zero
SqrtGuardOffByOne(value, xx, mx) == mx >= 0 /\ FLe(Residual(value, xx), SqrtEps)

\* a loop guard that iterates while the residual is above the tolerance
SqrtGuardWhileFar(value, xx, mx) == mx > 0 /\ FGt(Residual(value, xx), SqrtEps)

\* the guard of `while max > 0 && (value - x * x) <= 0.000001`
SqrtGuard(value, xx, mx) == mx > 0 /\ FLe(Residual(value, xx), SqrtEps)

\* an update that takes the difference of x and value / x
NewtonStepDifference(value, xx) == FDiv(FSub(xx, FDiv(value, xx)), F2)

\* an update that forgets to halve the sum
NewtonStepSum(value, xx) == FAdd(xx, FDiv(value, xx))

\* x = (x + value / x) / 2.0
NewtonStep(value, xx) == FDiv(FAdd(xx, FDiv(value, xx)), F2)

(***************************************************************************)
(* The inputs the calls are drawn from                                     *)
(***************************************************************************)
\* sqrt is called on k/4 for -MaxSqrtIn <= k <= MaxSqrtIn
MaxSqrtIn == 68
\* sin, cos, sin_cos are called on k/8 for -MaxAngleIn <= k <= MaxAngleIn
MaxAngleIn == 40
\* trunc, floor, ceil, frac are called on k/4 for -MaxTruncIn <= k <= MaxTruncIn
MaxTruncIn == 12
\* clamp is called on triples of k/4 for -MaxClampIn <= k <= MaxClampIn
MaxClampIn == 2
\* pow_i32 is called on exponents -MaxPowExp..MaxPowExp (and on i32::MIN)
MaxPowExp == 4
\* nested calls of cordic the stack holds before it overflows
StackFrames == 40

F4 == Fin(0, Two23, -21)   \* 4.0
F8 == Fin(0, Two23, -20)   \* 8.0
Quarter(k) == FDiv(I32ToF32(k), F4)
Eighth(k) == FDiv(I32ToF32(k), F8)

F1023_835 == Fin(0, 16774513, -14)     \* 1023.835
FNeg102 == Fin(1, 13369344, -17)       \* -102.0
F1e30 == Fin(0, 13234890, 76)          \* 1e30
F1eNeg7 == Fin(0, 14073749, -47)       \* 1e-7
FNeg100 == Fin(1, 13107200, -17)       \* -100.0
F1e9 == Fin(0, 15625000, 6)            \* 1e9
F3e9 == Fin(0, 11718750, 8)            \* 3e9
F4_9 == Fin(0, 10276045, -21)          \* 4.9
F12_34 == Fin(0, 12939428, -20)        \* 12.34
F123_456 == Fin(0, 16181625, -17)      \* 123.456
F1eNeg10 == Fin(0, 14411519, -57)      \* 1e-10
FTwo24 == Fin(0, Two23, 1)             \* 16777216.0
FTwo31 == Fin(0, Two23, 8)             \* 2147483648.0
FHalf == Fin(0, Two23, -24)            \* 0.5
F0_1 == Fin(0, 13421773, -27)          \* 0.1
F0_55 == Fin(0, 9227469, -24)          \* 0.55
F0_6 == Fin(0, 10066330, -24)          \* 0.6
F0_7 == Fin(0, 11744051, -24)          \* 0.7
F0_9 == Fin(0, 15099494, -24)          \* 0.9
F1_000005 == Fin(0, 8388650, -23)      \* 1.000005
F1_00002 == Fin(0, 8388776, -23)       \* 1.00002
F1_1 == Fin(0, 9227469, -23)           \* 1.1
F1_5 == Fin(0, 12582912, -23)          \* 1.5
F3 == Fin(0, 12582912, -22)            \* 3.0
F10 == Fin(0, 10485760, -20)           \* 10.0
F11 == Fin(0, 11534336, -20)           \* 11.0
F100 == Fin(0, 13107200, -17)          \* 100.0
FMinPositive == Fin(0, 1, EMin)        \* the least positive f32, 1.4e-45
FMaxFinite == Fin(0, Two24 - 1, 104)   \* f32::MAX, 3.4028235e38

SqrtInputs ==
    {Quarter(k) : k \in -MaxSqrtIn..MaxSqrtIn}
        \cup {FNeg0, F1023_835, FNeg102, F1e30, F1eNeg7, FMinPositive,
              FMaxFinite, F0_1, F0_55, F0_9, NaN, Inf(0), Inf(1)}

AngleInputs ==
    {Eighth(k) : k \in -MaxAngleIn..MaxAngleIn}
        \cup {PI_OVER_2, FNeg(PI_OVER_2), PI, FNeg(PI), FAdd(PI, PI_OVER_2),
              FNeg(FAdd(PI, PI_OVER_2)), TWO_PI, FMul(PI_OVER_2, FHalf), FNeg100, F1e9, FNeg(F1e9),
              Inf(0), NaN}

TruncInputs ==
    {Quarter(k) : k \in -MaxTruncIn..MaxTruncIn}
        \cup {FNeg0, F4_9, FNeg(F4_9), F12_34, F123_456, F1eNeg10,
              FNeg(F1eNeg10), FTwo24, FNeg(FTwo24), FTwo31, FNeg(FTwo31),
              F3e9, FNeg(F3e9), F1e30, NaN, Inf(0), Inf(1)}

ClampInputs == {Quarter(k) : k \in -MaxClampIn..MaxClampIn} \cup {NaN}

I32Inputs == {I32Min, I32Min + 1, -10, -1, 0, 1, 10, I32Max}

ApproxInputs == {F0, FNeg0, F1, F1_000005, F1_00002, F1_1, FNeg(F1), NaN}

\* the ends a, b and the ratios t of lerp and lerp_unclamped
LerpEnds == {F0, F1, F0_1, F10, FNeg(F10), FNeg(F4), F1e30}
LerpRatios == {FNeg(F1), FNeg(FHalf), F0, FHalf, F0_6, F0_7, F0_9, F1, F1_5, F2, NaN}

\* the ranges (start, end) and the values of map
MapRanges ==
    { <<F0, F1>>, <<F0, F10>>, <<F1, F2>>, <<FNeg(F10), F10>>,
      <<FNeg100, FNeg(F10)>>, <<F10, F100>>, <<FNeg(F10), F0_1>>, <<F1, F1>> }
MapValues == {F0, F1, F1_5, F2, F10, F11, FNeg(F10), FNeg100, F0_1, F100}

\* the bases and the exponents of pow_i32
PowBases == {F0, F1, FNeg(F1), F2, FNeg(F2), FHalf, F3, F1_5, F10, F0_1, NaN, Inf(0)}
PowExps == (-MaxPowExp..MaxPowExp) \cup {I32Min}

TrigOps == {"sin", "cos", "sin_cos"}
TruncOps == {"trunc", "floor", "ceil", "frac"}
LerpOps == {"lerp", "lerp_unclamped"}
Ops ==
    {"sqrt", "clamp", "abs_i32", "abs", "sign", "approx", "map", "pow_i32"}
        \cup TrigOps \cup TruncOps \cup LerpOps

\* the argument tuples of a call of operation o
Inputs(o) ==
    IF o = "sqrt" THEN {<<v>> : v \in SqrtInputs}
    ELSE IF o \in TrigOps THEN {<<v>> : v \in AngleInputs}
    ELSE IF o \in TruncOps \cup {"abs", "sign"} THEN {<<v>> : v \in TruncInputs}
    ELSE IF o = "approx" THEN ApproxInputs \X ApproxInputs
    ELSE IF o \in LerpOps THEN LerpEnds \X LerpEnds \X LerpRatios
    ELSE IF o = "map"
         THEN {<<v, ir[1], ir[2], or[1], or[2]>> :
                   v \in MapValues, ir \in MapRanges, or \in MapRanges}
    ELSE IF o = "pow_i32" THEN PowBases \X PowExps
    ELSE IF o = "clamp" THEN ClampInputs \X ClampInputs \X ClampInputs
    ELSE {<<v>> : v \in I32Inputs}

(***************************************************************************)
(* Tween, src/src/curves/tween.rs: the fields start, end, duration, time   *)
(* and loop_type of one Tween. The boxed easing function is opaque to the  *)
(* methods modelled here and is left out.                                  *)
(***************************************************************************)
\* #[repr(i32)] enum InterpolationType: `loop_type as i32`
InterpolationType ==
    [NoLoop |-> 0, NoLoopBackwards |-> 1, FullLoop |-> 2,
     FullLoopBackwards |-> 3, YoyoLoop |-> 4, YoyoLoopBackwards |-> 5]

\* a constructor that stores the duration as it was passed
TweenNewSigned(start, end, duration) ==
    [start |-> start, end |-> end, duration |-> duration,
     time |-> F0, loop_type |-> "NoLoop"]

\* Tween::new
TweenNew(start, end, duration) ==
    [start |-> start, end |-> end, duration |-> Abs(duration),
     time |-> F0, loop_type |-> "NoLoop"]

\* the match on loop_type in Tween::update
YoyoFlip(loop_type) ==
    IF loop_type = "YoyoLoop" THEN "YoyoLoopBackwards"
    ELSE IF loop_type = "YoyoLoopBackwards" THEN "YoyoLoop"
    ELSE loop_type

\* the arguments the Tween methods are called with
MaxTweenIn == 4
MaxCalls == 4
TweenEnds == {F0, F1, FNeg(F10)}
TweenDurations ==
    {Quarter(k) : k \in -MaxTweenIn..MaxTweenIn}
        \cup {FNeg0, F2, FNeg(F3), FMaxFinite, FNeg(FMaxFinite)}
TweenDeltas ==
    {Quarter(k) : k \in -MaxTweenIn..MaxTweenIn}
        \cup {FMaxFinite, FNeg(FMaxFinite)}
TweenValues ==
    {Quarter(k) : k \in -MaxTweenIn..MaxTweenIn}
        \cup {F2, FMaxFinite, FNeg(FMaxFinite)}

(***************************************************************************)
(* One call of one kernel operation                                        *)
(***************************************************************************)
VARIABLES
    op,       \* the operation called
    arg,      \* its arguments
    pc,       \* "call", a position inside the operation, "done", "panic"
    result,   \* the value returned (when pc = "done")
    x,        \* sqrt: the candidate root
    max,      \* sqrt: the iteration budget left
    updates,  \* sqrt: Newton updates performed so far (history)
    angle,    \* cordic: the angle of the innermost call
    depth,    \* cordic: recursive calls pending (each negates on return)
    cos,      \* cordic: local cos
    sin,      \* cordic: local sin
    z,        \* cordic: the remaining-angle accumulator
    i,        \* cordic: the loop index
    ret,      \* cordic: the tuple being returned through the pending calls
    tween,    \* Tween: the fields of the one Tween
    created,  \* Tween: the arguments Tween::new was called with (history)
    called,   \* Tween: the method called last (history)
    calls     \* Tween: method calls made so far (history)

sqrtVars == <<x, max, updates>>
cordicVars == <<angle, depth, cos, sin, z, i, ret>>
callVars == <<op, arg, pc, result>>
tweenVars == <<tween, created, called, calls>>
vars == <<op, arg, pc, result, x, max, updates, angle, depth, cos, sin, z, i, ret,
          tween, created, called, calls>>

Init ==
    /\ op \in Ops
    /\ arg \in Inputs(op)
    /\ pc = "call"
    /\ result = F0
    /\ x = F0 /\ max = 0 /\ updates = 0
    /\ angle = F0 /\ depth = 0 /\ cos = F0 /\ sin = F0 /\ z = F0 /\ i = 0
    /\ ret = <<F0, F0>>
    /\ tween = TweenNew(F0, F0, F0) /\ created = <<F0, F0, F0>>
    /\ called = "none" /\ calls = 0

Return(v) == pc' = "done" /\ result' = v

\* Math::sqrt up to the loop: the two early returns, or the seed
SqrtEnter ==
    /\ pc = "call" /\ op = "sqrt"
    /\ IF SqrtIsNegative(arg[1]) THEN Return(NaN) /\ UNCHANGED sqrtVars
       ELSE IF SqrtIsZero(arg[1]) THEN Return(F0) /\ UNCHANGED sqrtVars
       ELSE /\ max' = SqrtMaxIter
            /\ x' = arg[1]
            /\ pc' = "sqrt_loop"
            /\ UNCHANGED <<result, updates>>
    /\ UNCHANGED <<op, arg>> /\ UNCHANGED cordicVars
    /\ UNCHANGED tweenVars

\* one pass of the while loop of Math::sqrt: update, break test, decrement
SqrtIterate ==
    /\ pc = "sqrt_loop"
    /\ SqrtGuard(arg[1], x, max)
    /\ x' = NewtonStep(arg[1], x)
    /\ updates' = updates + 1
    /\ IF FEq(Residual(arg[1], x'), F0)
       THEN pc' = "sqrt_return" /\ max' = max
       ELSE pc' = "sqrt_loop" /\ max' = max - 1
    /\ UNCHANGED <<op, arg, result>> /\ UNCHANGED cordicVars
    /\ UNCHANGED tweenVars

\* the loop guard fails: fall through to `return x`
SqrtExit ==
    /\ pc = "sqrt_loop"
    /\ ~SqrtGuard(arg[1], x, max)
    /\ pc' = "sqrt_return"
    /\ UNCHANGED <<op, arg, result>> /\ UNCHANGED sqrtVars /\ UNCHANGED cordicVars
    /\ UNCHANGED tweenVars

\* return x
SqrtReturn ==
    /\ pc = "sqrt_return"
    /\ Return(x)
    /\ UNCHANGED <<op, arg>> /\ UNCHANGED sqrtVars /\ UNCHANGED cordicVars
    /\ UNCHANGED tweenVars

\* Math::sin, Math::cos, Math::sin_cos call Math::cordic(angle)
TrigEnter ==
    /\ pc = "call" /\ op \in TrigOps
    /\ angle' = arg[1]
    /\ depth' = 0
    /\ pc' = "cordic"
    /\ UNCHANGED <<op, arg, result, cos, sin, z, i, ret>> /\ UNCHANGED sqrtVars
    /\ UNCHANGED tweenVars

\* cordic on an angle outside [-PI_OVER_2, PI_OVER_2]: the recursive call
CordicReduce ==
    /\ pc = "cordic" /\ OutOfRange(angle)
    /\ depth < StackFrames
    /\ angle' = ReducedAngle(angle)
    /\ depth' = depth + 1
    /\ UNCHANGED <<op, arg, pc, result, cos, sin, z, i, ret>> /\ UNCHANGED sqrtVars
    /\ UNCHANGED tweenVars

\* the recursion has used the whole stack: the process aborts
CordicStackOverflow ==
    /\ pc = "cordic" /\ OutOfRange(angle)
    /\ depth >= StackFrames
    /\ pc' = "panic"
    /\ UNCHANGED <<op, arg, result>> /\ UNCHANGED sqrtVars /\ UNCHANGED cordicVars
    /\ UNCHANGED tweenVars

\* cordic on an angle in range: the seed of the rotation loop
CordicSeed ==
    /\ pc = "cordic" /\ ~OutOfRange(angle)
    /\ cos' = CordicGain
    /\ sin' = F0
    /\ z' = angle
    /\ i' = 0
    /\ pc' = "rotate"
    /\ UNCHANGED <<op, arg, result, angle, depth, ret>> /\ UNCHANGED sqrtVars
    /\ UNCHANGED tweenVars

\* one iteration of `for i in 0..ITERATIONS`
CordicRotate ==
    /\ pc = "rotate" /\ i < ITERATIONS
    /\ LET r == Rotate(cos, sin, z, i)
       IN  cos' = r.cos /\ sin' = r.sin /\ z' = r.z
    /\ i' = i + 1
    /\ UNCHANGED <<op, arg, pc, result, angle, depth, ret>> /\ UNCHANGED sqrtVars
    /\ UNCHANGED tweenVars

\* return (sin, cos)
CordicReturn ==
    /\ pc = "rotate" /\ i >= ITERATIONS
    /\ ret' = <<sin, cos>>
    /\ pc' = "unwind"
    /\ UNCHANGED <<op, arg, result, angle, depth, cos, sin, z, i>> /\ UNCHANGED sqrtVars
    /\ UNCHANGED tweenVars

\* a pending call returns Math::negate_tuple of what its callee returned
CordicNegate ==
    /\ pc = "unwind" /\ depth > 0
    /\ ret' = NegateTuple(ret)
    /\ depth' = depth - 1
    /\ UNCHANGED <<op, arg, pc, result, angle, cos, sin, z, i>> /\ UNCHANGED sqrtVars
    /\ UNCHANGED tweenVars

\* the outermost cordic has returned: sin takes .0, cos takes .1
TrigReturn ==
    /\ pc = "unwind" /\ depth = 0
    /\ Return(TrigResult(op, ret))
    /\ UNCHANGED <<op, arg>> /\ UNCHANGED sqrtVars /\ UNCHANGED cordicVars
    /\ UNCHANGED tweenVars

TruncCall ==
    /\ pc = "call" /\ op = "trunc"
    /\ Return(Trunc(arg[1]))
    /\ UNCHANGED <<op, arg>> /\ UNCHANGED sqrtVars /\ UNCHANGED cordicVars
    /\ UNCHANGED tweenVars

FloorCall ==
    /\ pc = "call" /\ op = "floor"
    /\ Return(Floor(arg[1]))
    /\ UNCHANGED <<op, arg>> /\ UNCHANGED sqrtVars /\ UNCHANGED cordicVars
    /\ UNCHANGED tweenVars

CeilCall ==
    /\ pc = "call" /\ op = "ceil"
    /\ Return(Ceil(arg[1]))
    /\ UNCHANGED <<op, arg>> /\ UNCHANGED sqrtVars /\ UNCHANGED cordicVars
    /\ UNCHANGED tweenVars

FracCall ==
    /\ pc = "call" /\ op = "frac"
    /\ Return(Frac(arg[1]))
    /\ UNCHANGED <<op, arg>> /\ UNCHANGED sqrtVars /\ UNCHANGED cordicVars
    /\ UNCHANGED tweenVars

\* Math::clamp: value.clamp(min, max), which asserts min <= max
ClampCall ==
    /\ pc = "call" /\ op = "clamp"
    /\ IF ClampPanics(arg[2], arg[3])
       THEN pc' = "panic" /\ UNCHANGED result
       ELSE Return(Clamp(arg[1], arg[2], arg[3]))
    /\ UNCHANGED <<op, arg>> /\ UNCHANGED sqrtVars /\ UNCHANGED cordicVars
    /\ UNCHANGED tweenVars

\* Math::abs_i32: -value overflows at i32::MIN; the build decides what then
AbsI32Call ==
    /\ pc = "call" /\ op = "abs_i32"
    /\ \E overflow_checks \in BOOLEAN :
         IF AbsI32Panics(arg[1], overflow_checks)
         THEN pc' = "panic" /\ UNCHANGED result
         ELSE Return(AbsI32(arg[1]))
    /\ UNCHANGED <<op, arg>> /\ UNCHANGED sqrtVars /\ UNCHANGED cordicVars
    /\ UNCHANGED tweenVars

AbsCall ==
    /\ pc = "call" /\ op = "abs"
    /\ Return(Abs(arg[1]))
    /\ UNCHANGED <<op, arg>> /\ UNCHANGED sqrtVars /\ UNCHANGED cordicVars
    /\ UNCHANGED tweenVars

SignCall ==
    /\ pc = "call" /\ op = "sign"
    /\ Return(Sign(arg[1]))
    /\ UNCHANGED <<op, arg>> /\ UNCHANGED sqrtVars /\ UNCHANGED cordicVars
    /\ UNCHANGED tweenVars

ApproxCall ==
    /\ pc = "call" /\ op = "approx"
    /\ Return(Approx(arg[1], arg[2]))
    /\ UNCHANGED <<op, arg>> /\ UNCHANGED sqrtVars /\ UNCHANGED cordicVars
    /\ UNCHANGED tweenVars

\* Math::lerp: its clamp has the bounds 0.0 <= 1.0 and cannot panic
LerpCall ==
    /\ pc = "call" /\ op = "lerp"
    /\ Return(Lerp(arg[1], arg[2], arg[3]))
    /\ UNCHANGED <<op, arg>> /\ UNCHANGED sqrtVars /\ UNCHANGED cordicVars
    /\ UNCHANGED tweenVars

LerpUnclampedCall ==
    /\ pc = "call" /\ op = "lerp_unclamped"
    /\ Return(LerpUnclamped(arg[1], arg[2], arg[3]))
    /\ UNCHANGED <<op, arg>> /\ UNCHANGED sqrtVars /\ UNCHANGED cordicVars
    /\ UNCHANGED tweenVars

\* Math::map(value, in_range.start..in_range.end, out_range.start..out_range.end)
MapCall ==
    /\ pc = "call" /\ op = "map"
    /\ Return(Map(arg[1], arg[2], arg[3], arg[4], arg[5]))
    /\ UNCHANGED <<op, arg>> /\ UNCHANGED sqrtVars /\ UNCHANGED cordicVars
    /\ UNCHANGED tweenVars

\* Math::pow_i32: the loop bound is Math::abs_i32(b), with its overflow
PowI32Call ==
    /\ pc = "call" /\ op = "pow_i32"
    /\ \E overflow_checks \in BOOLEAN :
         IF arg[2] # 0 /\ AbsI32Panics(arg[2], overflow_checks)
         THEN pc' = "panic" /\ UNCHANGED result
         ELSE Return(PowI32(arg[1], arg[2]))
    /\ UNCHANGED <<op, arg>> /\ UNCHANGED sqrtVars /\ UNCHANGED cordicVars
    /\ UNCHANGED tweenVars

Next ==
    \/ SqrtEnter \/ SqrtIterate \/ SqrtExit \/ SqrtReturn
    \/ TrigEnter \/ CordicReduce \/ CordicStackOverflow \/ CordicSeed
    \/ CordicRotate \/ CordicReturn \/ CordicNegate \/ TrigReturn
    \/ TruncCall \/ FloorCall \/ CeilCall \/ FracCall
    \/ ClampCall \/ AbsI32Call
    \/ AbsCall \/ SignCall \/ ApproxCall
    \/ LerpCall \/ LerpUnclampedCall \/ MapCall \/ PowI32Call

Spec == Init /\ [][Next]_vars

(***************************************************************************)
(* One Tween: built by Tween::new, then update, set_time and reset called  *)
(* on it in any order with finite arguments                                *)
(***************************************************************************)
TweenInit ==
    /\ \E start \in TweenEnds, end \in TweenEnds, duration \in TweenDurations :
           /\ tween = TweenNew(start, end, duration)
           /\ created = <<start, end, duration>>
    /\ called = "new" /\ calls = 0
    /\ op = "tween" /\ arg = <<>> /\ pc = "done" /\ result = F0
    /\ x = F0 /\ max = 0 /\ updates = 0
    /\ angle = F0 /\ depth = 0 /\ cos = F0 /\ sin = F0 /\ z = F0 /\ i = 0
    /\ ret = <<F0, F0>>

\* Tween::update. Math::repeat, which the looping branch calls, is not part
\* of src/src/math.rs: its result is left open.
TweenUpdate ==
    /\ called # "panic" /\ calls < MaxCalls
    /\ \E delta_time \in TweenDeltas :
           IF InterpolationType[tween.loop_type] < 2
           THEN IF ClampPanics(F0, tween.duration)
                THEN called' = "panic" /\ UNCHANGED tween
                ELSE /\ tween' = [tween EXCEPT !.time =
                            Clamp(FAdd(tween.time, delta_time), F0,
                                  tween.duration)]
                     /\ called' = "update"
           ELSE /\ \E repeated \in TweenDeltas :
                       tween' = [tween EXCEPT
                           !.loop_type =
                               IF FGt(FAdd(tween.time, delta_time),
                                      tween.duration)
                               THEN YoyoFlip(tween.loop_type)
                               ELSE tween.loop_type,
                           !.time = repeated]
                /\ called' = "update"
    /\ calls' = calls + 1
    /\ UNCHANGED created /\ UNCHANGED callVars
    /\ UNCHANGED sqrtVars /\ UNCHANGED cordicVars

\* Tween::set_time
TweenSetTime ==
    /\ called # "panic" /\ calls < MaxCalls
    /\ \E value \in TweenValues :
           tween' = [tween EXCEPT !.time =
                        FMul(Clamp(value, F0, F1), tween.duration)]
    /\ called' = "set_time"
    /\ calls' = calls + 1
    /\ UNCHANGED created /\ UNCHANGED callVars
    /\ UNCHANGED sqrtVars /\ UNCHANGED cordicVars

\* Tween::reset
TweenReset ==
    /\ called # "panic" /\ calls < MaxCalls
    /\ tween' = [tween EXCEPT !.time = F0]
    /\ called' = "reset"
    /\ calls' = calls + 1
    /\ UNCHANGED created /\ UNCHANGED callVars
    /\ UNCHANGED sqrtVars /\ UNCHANGED cordicVars

TweenNext == TweenUpdate \/ TweenSetTime \/ TweenReset

TweenSpec == TweenInit /\ [][TweenNext]_vars

(***************************************************************************)
(* Properties                                                              *)
(***************************************************************************)
Tol1eNeg3 == Fin(0, 8589935, -33)      \* 0.001

Done(o) == pc = "done" /\ op = o

\* the larger of 1.0 and v: the scale of a relative tolerance
ScaleOf(v) == IF FLt(F1, v) THEN v ELSE F1

\* C1: for every v >= 0, the value r returned by sqrt(v) has
\* |r * r - v| < 1e-3, relative to v when v is above 1.
C1_SqrtWithinTolerance ==
    (Done("sqrt") /\ IsFin(arg[1]) /\ FLe(F0, arg[1]))
        => FLt(Abs(FSub(FMul(result, result), arg[1])),
               FMul(Tol1eNeg3, ScaleOf(arg[1])))

\* |sin^2 + cos^2 - 1| < 1e-3 for a returned (sin, cos) pair
UnitNorm(t) ==
    FLt(Abs(FSub(FAdd(FMul(t[1], t[1]), FMul(t[2], t[2])), F1)), Tol1eNeg3)

\* C2: for every finite angle on which the call returns, the sine and the
\* cosine it is built from satisfy |sin^2 + cos^2 - 1| < 1e-3; sin returns
\* the first component of that pair, cos the second, sin_cos both.
C2_TrigIdentity ==
    (pc = "done" /\ op \in TrigOps /\ IsFin(arg[1]))
        => /\ UnitNorm(ret)
           /\ op = "sin" => result = ret[1]
           /\ op = "cos" => result = ret[2]
           /\ op = "sin_cos" => result = ret

\* a call that went through range reduction (-100.0) has returned
C2_Witness == Done("sin") /\ arg[1] = FNeg100 /\ IsFin(result)

\* the fixture angles of the doc tests with the expected (sine, cosine)
TrigFixtures ==
    { <<F0, F0, F1>>,
      <<PI_OVER_2, F1, F0>>,
      <<PI, F0, FNeg(F1)>>,
      <<FAdd(PI, PI_OVER_2), FNeg(F1), F0>>,
      <<TWO_PI, F0, F1>>,
      <<FMul(PI_OVER_2, FHalf), Fin(0, 11863283, -24), Fin(0, 11863283, -24)>>,  \* 0.707106781
      <<F1, Fin(0, 14117540, -24), Fin(0, 9064768, -24)>>,      \* 0.841470985, 0.540302306
      <<FNeg100, Fin(0, 8495406, -24), Fin(0, 14467310, -24)>> }  \* 0.506365641, 0.862318872

\* C3: at every fixture angle sin_cos returns (sine, cosine) within 1e-4 of
\* the expected pair, and sin and cos return the matching component.
C3_KnownAngles ==
    \A f \in TrigFixtures :
        (pc = "done" /\ op \in TrigOps /\ arg[1] = f[1])
            => /\ op = "sin_cos" => /\ ApproxEpsilon(f[2], result[1], RangeEps)
                                    /\ ApproxEpsilon(f[3], result[2], RangeEps)
               /\ op = "sin" => ApproxEpsilon(f[2], result, RangeEps)
               /\ op = "cos" => ApproxEpsilon(f[3], result, RangeEps)

\* sin_cos(-100.0) has returned, after 32 reductions were undone
C3_Witness == Done("sin_cos") /\ arg[1] = FNeg100 /\ depth = 0

\* v is a whole number
IsIntegral(v) ==
    /\ IsFin(v)
    /\ \/ v.m = 0
       \/ v.e >= 0
       \/ v.e > -MantBits /\ v.m % 2^(-v.e) = 0

\* C4: for every finite v, floor(v) <= v <= ceil(v), and ceil(v) - floor(v)
\* is 0 when v is integral and 1 otherwise.
C4_FloorCeilOrdering ==
    (pc = "done" /\ op \in {"floor", "ceil"} /\ IsFin(arg[1]))
        => LET v == arg[1]
               fl == IF op = "floor" THEN result ELSE Floor(v)
               ce == IF op = "ceil" THEN result ELSE Ceil(v)
           IN  /\ FLe(fl, v)
               /\ FLe(v, ce)
               /\ FEq(FSub(ce, fl), IF IsIntegral(v) THEN F0 ELSE F1)

\* C5: for every integral v, trunc(v), floor(v) and ceil(v) return v, and
\* frac(v) returns 0.
C5_IntegralFixed ==
    (pc = "done" /\ op \in TruncOps /\ IsIntegral(arg[1]))
        => IF op = "frac" THEN FEq(result, F0) ELSE FEq(result, arg[1])

\* C6: for every finite v, 0 <= frac(v) < 1.
C6_FracRange ==
    (Done("frac") /\ IsFin(arg[1])) => FLe(F0, result) /\ FLt(result, F1)

\* C7: sqrt returns NaN for every value < 0 and exactly 0.0 for every
\* value == 0 (-0.0 included), in both cases without reaching the loop; a
\* Newton update is only ever performed for value > 0.
C7_SqrtDomain ==
    op = "sqrt"
        => /\ (pc = "done" /\ FLt(arg[1], F0)) => IsNaN(result) /\ updates = 0
           /\ (pc = "done" /\ FEq(arg[1], F0)) => result = F0 /\ updates = 0
           /\ pc \in {"sqrt_loop", "sqrt_return"}
                  => ~FLt(arg[1], F0) /\ ~FEq(arg[1], F0)
           /\ updates > 0 => FGt(arg[1], F0)

\* sqrt(-102.0) has returned NaN
C7_Witness == Done("sqrt") /\ arg[1] = FNeg102 /\ IsNaN(result)

\* C8: no call of a kernel operation panics or aborts.
C8_Total == pc # "panic"

\* C9: every call of sin, cos or sin_cos on a finite angle returns: none
\* recurses until the stack is exhausted.
C9_TrigTerminates == (op \in TrigOps /\ IsFin(arg[1])) => pc # "panic"

\* C10: sqrt performs at most 50 Newton updates: the budget starts at 50,
\* has been decremented once per completed update, never goes below 0, and
\* at 0 the loop guard is false, so no further update is possible.
C10_SqrtBounded ==
    op = "sqrt"
        => /\ updates <= SqrtMaxIter
           /\ max >= 0
           /\ pc = "sqrt_loop" => max = SqrtMaxIter - updates
           /\ (pc = "sqrt_loop" /\ max = 0) => ~SqrtGuard(arg[1], x, max)

\* a call on a positive value has used the whole budget of 50 updates
C10_Witness ==
    Done("sqrt") /\ FGt(arg[1], F0) /\ updates = SqrtMaxIter /\ max = 0

\* a and b are the same number (or both NaN); -0.0 and 0.0 count as the same
Same(a, b) == (IsNaN(a) /\ IsNaN(b)) \/ FEq(a, b)

\* C11: the no_std and the std variant return the same result on the same
\* finite input: the same truth value from approx, the same number from abs,
\* trunc, floor, ceil and frac, and square roots within 1e-4 of each other.
\* (sign, clamp, lerp, map, smoothstep and pow_i32 have the same code in
\* both variants.)
C11_VariantsAgree ==
    (/\ pc = "done"
     /\ op \in {"approx", "abs", "sqrt"} \cup TruncOps
     /\ \A j \in 1..Len(arg) : IsFin(arg[j]))
        => /\ op = "approx" => result = StdApprox(arg[1], arg[2])
           /\ op = "abs" => Same(result, StdAbs(arg[1]))
           /\ op = "trunc" => Same(result, StdTrunc(arg[1]))
           /\ op = "floor" => Same(result, StdFloor(arg[1]))
           /\ op = "ceil" => Same(result, StdCeil(arg[1]))
           /\ op = "frac" => Same(result, StdFrac(arg[1]))
           /\ op = "sqrt" => \/ Same(result, StdSqrt(arg[1]))
                             \/ ApproxEpsilon(StdSqrt(arg[1]), result, RangeEps)

\* C12: on every angle on which the call returns, sin_cos returns the pair
\* (sine, cosine) that the separate calls sin and cos return, sine first,
\* after one pass of the 16 rotations with every pending reduction undone.
C12_SinCosPair ==
    (pc = "done" /\ op \in TrigOps)
        => /\ op = "sin_cos" => /\ result = <<Sin(arg[1]), Cos(arg[1])>>
                                /\ i = ITERATIONS /\ depth = 0
           /\ op = "sin" => result = SinCos(arg[1])[1]
           /\ op = "cos" => result = SinCos(arg[1])[2]

\* sin_cos(1.0) has returned a pair whose first component (the sine, 0.84)
\* is above its second (the cosine, 0.54)
C12_Witness ==
    Done("sin_cos") /\ arg[1] = F1 /\ FLt(result[2], result[1])

\* the product of n >= 1 copies of a, multiplied from the left
RECURSIVE Copies(_, _)
Copies(a, n) == IF n <= 1 THEN a ELSE FMul(Copies(a, n - 1), a)

\* C13: for every base a and every 32-bit exponent b the call pow_i32(a, b)
\* returns: 1 when b == 0; the product of b copies of a when b > 0; the
\* reciprocal of the product of -b copies of a when b < 0. At b == i32::MIN
\* that product has 2^31 factors, which is infinite for every |a| >= 1.5,
\* so the reciprocal is zero.
C13_PowI32 ==
    op = "pow_i32"
        => /\ pc # "panic"
           /\ pc = "done"
                => LET a == arg[1]
                       b == arg[2]
                   IN  /\ b = 0 => result = F1
                       /\ b > 0 => result = Copies(a, b)
                       /\ (b < 0 /\ b > I32Min)
                              => result = FDiv(F1, Copies(a, -b))
                       /\ (b = I32Min /\ FLe(F1_5, Abs(a))) => IsZero(result)

\* C14: abs_i32(v) returns -v when v < 0 and v otherwise, a non-negative
\* |v|, for every v other than i32::MIN. At i32::MIN the negation overflows:
\* the call panics or returns the (negative) wrapped value i32::MIN, and no
\* other input makes it panic. The same overflow is the only thing that
\* makes pow_i32 panic, and it does so at exponent i32::MIN.
C14_AbsI32 ==
    /\ op = "abs_i32"
         => LET v == arg[1]
            IN  /\ (pc = "done" /\ v # I32Min)
                       => /\ result = (IF v < 0 THEN -v ELSE v)
                          /\ result >= 0
                /\ (pc = "done" /\ v = I32Min) => result < 0
                /\ pc = "panic" => v = I32Min
    /\ (op = "pow_i32" /\ pc = "panic") => arg[2] = I32Min

\* the overflow of abs_i32 has reached a pow_i32 call on exponent i32::MIN
C14_Witness == op = "pow_i32" /\ arg[2] = I32Min /\ pc = "panic"

\* the clamp law on the returned value r of clamp(v, lo, hi)
ClampLaw(v, lo, hi, r) ==
    /\ FLe(lo, r) /\ FLe(r, hi)
    /\ (FLe(lo, v) /\ FLe(v, hi)) => r = v
    /\ FLt(v, lo) => r = lo
    /\ FGt(v, hi) => r = hi

\* C15 as stated: for all v, lo, hi with lo <= hi, clamp(v, lo, hi) lies in
\* [lo, hi], equals v when lo <= v <= hi, lo when v < lo and hi when v > hi.
C15_ClampLawAllValues ==
    (Done("clamp") /\ FLe(arg[2], arg[3]))
        => ClampLaw(arg[1], arg[2], arg[3], result)

\* C15 amended: the clamp law holds for every v that is not NaN, and
\* clamp(NaN, lo, hi) is NaN.
C15_ClampLaw ==
    (Done("clamp") /\ FLe(arg[2], arg[3]))
        => IF IsNaN(arg[1]) THEN IsNaN(result)
           ELSE ClampLaw(arg[1], arg[2], arg[3], result)

\* clamp(0.5, -0.25, 0.25) has returned the upper bound
C15_Witness ==
    /\ Done("clamp")
    /\ arg = <<Quarter(2), Quarter(-1), Quarter(1)>>
    /\ result = Quarter(1)

\* C16: for all finite a, b and every t that is not NaN, the call
\* lerp(a, b, t) returns lerp_unclamped(a, b, clamp(t, 0, 1)), which is a
\* at t == 0 and for every t < 0, and b at t == 1 and for every t > 1;
\* lerp_unclamped(a, b, t) returns a + t * (b - a) for every t.
C16_LerpLaws ==
    (pc = "done" /\ op \in LerpOps /\ IsFin(arg[1]) /\ IsFin(arg[2])
        /\ ~IsNaN(arg[3]))
        => LET a == arg[1]
               b == arg[2]
               t == arg[3]
           IN  /\ op = "lerp_unclamped"
                    => Same(result, FAdd(a, FMul(t, FSub(b, a))))
               /\ op = "lerp"
                    => /\ Same(result, LerpUnclamped(a, b, Clamp(t, F0, F1)))
                       /\ FLe(t, F0) => FEq(result, a)
                       /\ FLe(F1, t) => FEq(result, b)

\* C17: for finite arguments and an input range of non-zero width the call
\* map(value, in_range, out_range) returns
\* out.start + (value - in.start) * (out.end - out.start) / (in.end - in.start),
\* which is out.start at value == in.start and out.end at value == in.end,
\* and is not clamped: map(11, 0..10, 0..1) is 1.1.
C17_MapAffine ==
    (/\ Done("map")
     /\ \A j \in 1..Len(arg) : IsFin(arg[j])
     /\ ~FEq(arg[2], arg[3]))
        => LET value == arg[1]
               in_start == arg[2]
               in_end == arg[3]
               out_start == arg[4]
               out_end == arg[5]
           IN  /\ Same(result,
                       FAdd(out_start,
                            FDiv(FMul(FSub(value, in_start),
                                      FSub(out_end, out_start)),
                                 FSub(in_end, in_start))))
               /\ FEq(value, in_start) => FEq(result, out_start)
               /\ FEq(value, in_end) => FEq(result, out_end)
               /\ arg = <<F11, F0, F10, F0, F1>> => result = F1_1

\* C18: sign(value) returns 1.0 for every value >= 0, zero and negative
\* zero included, and -1.0 for every value < 0; it never returns 0 (nor
\* anything but 1.0 and -1.0, whatever the input).
C18_Sign ==
    Done("sign")
        => /\ FLe(F0, arg[1]) => result = F1
           /\ FLt(arg[1], F0) => result = FNeg(F1)
           /\ result \in {F1, FNeg(F1)}

\* sign(-0.0) has returned 1.0
C18_Witness == Done("sign") /\ arg[1] = FNeg0 /\ result = F1

\* C20: whenever cordic is in its 16-iteration rotation loop on behalf of a
\* call of sin, cos or sin_cos on an angle that is not NaN, the working
\* angle of that (innermost) call satisfies
\* -PI_OVER_2 <= angle <= PI_OVER_2, and it is the value z was seeded with.
C20_LoopAngleInRange ==
    (pc = "rotate" /\ ~IsNaN(arg[1]))
        => /\ FLe(FNeg(PI_OVER_2), angle)
           /\ FLe(angle, PI_OVER_2)
           /\ i = 0 => z = angle

\* the loop has been reached on -100.0 after 32 reductions
C20_Witness ==
    pc = "rotate" /\ i = 0 /\ arg[1] = FNeg100 /\ depth > 0 /\ z = angle

\* the tuple the outermost cordic call is about to return equals the core
\* rotation's (sin, cos) negated once per reduction step
C21_Negation ==
    (pc = "unwind" /\ depth = 0 /\ IsFin(arg[1]) /\ FLe(Abs(arg[1]), F100))
        => LET k == CordicDescend([angle |-> arg[1], depth |-> 0]).depth
           IN  /\ ret = IF k % 2 = 0 THEN <<sin, cos>>
                                     ELSE <<FNeg(sin), FNeg(cos)>>
               /\ arg[1] = FNeg100 => (k = 32 /\ ret = <<sin, cos>>)

\* a reduction step takes PI off a positive angle, adds PI to a negative one,
\* and leaves an angle strictly closer to zero
C21_Decrease ==
    (pc = "cordic" /\ depth' = depth + 1 /\ IsFin(arg[1]))
        => /\ angle' = IF FLt(angle, F0) THEN FAdd(angle, PI)
                                         ELSE FSub(angle, PI)
           /\ FLt(Abs(angle'), Abs(angle))

\* a pending call hands back the component-wise negation of what its callee
\* returned
C21_Unwind ==
    (pc = "unwind" /\ depth' = depth - 1)
        => ret' = <<FNeg(ret[1]), FNeg(ret[2])>>

\* C21: outside [-PI_OVER_2, PI_OVER_2], cordic(angle) is the negation of
\* cordic(angle - PI) for a positive angle and of cordic(angle + PI) for a
\* negative one; every reduction step strictly decreases |angle|; after k
\* steps the result is (-1)^k times the core rotation of the reduced angle
\* (32 steps and a positive sign for -100.0).
C21_RangeReduction ==
    /\ [](C21_Negation)
    /\ [][C21_Decrease]_vars
    /\ [][C21_Unwind]_vars

\* the same without the strict decrease of |angle|
C21_ReductionSigns == [](C21_Negation) /\ [][C21_Unwind]_vars

\* 3 * PI / 2 as an f32
ThreeHalvesPi == FAdd(PI, PI_OVER_2)

\* C22: for every angle in [-3*PI/2, 3*PI/2] at most one recursive reduction
\* step is taken before the rotation loop starts, and none for an angle
\* already in [-PI/2, PI/2].
C22_AtMostOneReduction ==
    (op \in TrigOps /\ IsFin(arg[1]) /\ FLe(Abs(arg[1]), ThreeHalvesPi))
        => /\ depth <= 1
           /\ FLe(Abs(arg[1]), PI_OVER_2) => depth = 0

\* the loop has been reached from -3*PI/2 after exactly one reduction
C22_Witness ==
    /\ pc = "rotate" /\ op \in TrigOps
    /\ arg[1] = FNeg(ThreeHalvesPi) /\ depth = 1

\* 2^-idx, which is exact in f32
TwoToMinus(idx) == Fin(0, Two23, -23 - idx)

\* the direction the claim states: -1 when z <= 0, +1 otherwise
C23_D == IF FLe(z, F0) THEN FNeg(F1) ELSE F1

\* the loop index stays in 0..16, the loop starts from
\* (0.6072529, 0, angle), and the call returns only after index 15
C23_LoopBounds ==
    /\ pc = "rotate" => i \in 0..16
    /\ (pc = "rotate" /\ i = 0)
           => (cos = Fin(0, 10188013, -24) /\ sin = F0 /\ z = angle)
    /\ (pc = "unwind" /\ op \in TrigOps) => i = 16

\* one iteration: cos and sin both from the pair before the iteration, z
\* decreased by d * atan_table[i], the index advanced by one
C23_Iteration ==
    (pc = "rotate" /\ pc' = "rotate")
        => /\ i' = i + 1
           /\ cos' = FSub(cos, FMul(FMul(sin, C23_D), TwoToMinus(i)))
           /\ sin' = FAdd(sin, FMul(FMul(cos, C23_D), TwoToMinus(i)))
           /\ z' = FSub(z, FMul(C23_D, AtanTable[i + 1]))

\* C23: the core rotation runs exactly 16 iterations i = 0..15 from
\* (cos, sin, z) = (0.6072529, 0, angle); in each the direction d is -1 when
\* z <= 0 (z == 0 included) and +1 otherwise, new_cos = cos - sin*d*2^-i and
\* new_sin = sin + cos*d*2^-i are both computed from the pair before the
\* iteration, and z is decreased by d * atan_table[i].
C23_CoreRotation == [](C23_LoopBounds) /\ [][C23_Iteration]_vars

\* the first iteration on angle 0.0 has taken the direction -1 (z == 0), and
\* the loop has run to its end
C23_Witness ==
    /\ pc = "unwind" /\ op \in TrigOps /\ arg[1] = F0
    /\ i = 16 /\ depth = 0

\* C24: in sqrt with value > 0, once the residual value - x*x is within 1e-6
\* of zero no further Newton update is performed, whether the residual is
\* seen by the loop guard before an update or by the check after one.
C24_StopsWhenClose ==
    [][(/\ op = "sqrt" /\ pc = "sqrt_loop" /\ FGt(arg[1], F0)
        /\ FLe(Abs(Residual(arg[1], x)), SqrtEps))
            => updates' = updates]_vars

\* C25: for every value > 0 the candidate root x is strictly positive at the
\* seed and after every Newton update, so value / x never divides by zero.
C25_RootPositive ==
    (/\ op = "sqrt" /\ FGt(arg[1], F0)
     /\ pc \in {"sqrt_loop", "sqrt_return", "done"})
        => FGt(x, F0)

\* the loop on the least positive f32, after its first update
C25_Witness ==
    /\ op = "sqrt" /\ pc = "sqrt_loop" /\ arg[1] = FMinPositive
    /\ updates = 1 /\ FGt(x, F0)

C27_Case ==
    /\ op = "sqrt" /\ IsFin(arg[1]) /\ FGt(arg[1], F1)
    /\ pc \in {"sqrt_loop", "sqrt_return"}

\* an update never increases x
C27_NeverIncreases == (C27_Case /\ pc = "sqrt_loop") => FLe(x', x)

NormSq(a, b) == FAdd(FMul(a, a), FMul(b, b))

\* 0.6072529^2 times the product of (1 + 4^-j) over j < n, in f32
RECURSIVE GainSq(_)
GainSq(n) ==
    IF n = 0
    THEN FMul(Fin(0, 10188013, -24), Fin(0, 10188013, -24))
    ELSE FMul(GainSq(n - 1), FAdd(F1, TwoToMinus(2 * (n - 1))))

\* 2^-20, about 1e-6
Tol2Neg20 == Fin(0, Two23, -43)

\* negating both components leaves the pair's squared norm as it is
C28_NegationKeepsNorm ==
    (pc = "unwind" /\ depth' = depth - 1)
        => NormSq(ret'[1], ret'[2]) = NormSq(ret[1], ret[2])

\* C28: in the CORDIC loop, cos^2 + sin^2 after iteration i equals
\* 0.6072529^2 times the product over j = 0..i of (1 + 4^-j), whatever the
\* directions; so the final sin^2 + cos^2 is one and the same constant for
\* every input angle, and the negations of range reduction do not change it.
C28_NormExact ==
    /\ []((pc = "rotate" /\ ~IsNaN(arg[1]))
            => NormSq(sin, cos) = GainSq(i))
    /\ []((pc = "unwind" /\ ~IsNaN(arg[1]))
            => NormSq(ret[1], ret[2]) = GainSq(ITERATIONS))
    /\ [][C28_NegationKeepsNorm]_vars

\* C28 as it holds in f32: the same with "equals" read as "is within 2^-20
\* of"; the negations keep the computed value exactly.
C28_NormRounded ==
    /\ []((pc = "rotate" /\ ~IsNaN(arg[1]))
            => FLe(Abs(FSub(NormSq(sin, cos), GainSq(i))), Tol2Neg20))
    /\ []((pc = "unwind" /\ ~IsNaN(arg[1]))
            => FLe(Abs(FSub(NormSq(ret[1], ret[2]), GainSq(ITERATIONS))),
                   Tol2Neg20))
    /\ [][C28_NegationKeepsNorm]_vars

\* cordic(PI) has run its 16 iterations and negated the pair once; the
\* squared norm is near the constant without being equal to it
C28_Witness ==
    /\ pc = "unwind" /\ op \in TrigOps /\ arg[1] = PI /\ depth = 0
    /\ i = 16 /\ ret = <<FNeg(sin), FNeg(cos)>>
    /\ NormSq(ret[1], ret[2]) # GainSq(ITERATIONS)
    /\ FLe(Abs(FSub(NormSq(ret[1], ret[2]), GainSq(ITERATIONS))), Tol2Neg20)

\* Exact sums of table entries: a finite f32 that is a multiple of 2^-38, as
\* a pair <<hi, lo>> standing for (hi * 2^20 + lo) * 2^-38.
Exact38(f) ==
    \/ f.m = 0
    \/ f.e >= -38
    \/ (f.e >= -61 /\ f.m % 2^(-38 - f.e) = 0)

Fix38(f) ==
    LET sh == f.e + 38
    IN  IF f.m = 0 \/ sh < -23 THEN <<0, 0>>
        ELSE IF sh >= 20 THEN <<f.m * 2^(sh - 20), 0>>
        ELSE IF sh >= 0
             THEN <<f.m \div 2^(20 - sh), (f.m % 2^(20 - sh)) * 2^sh>>
        ELSE <<(f.m \div 2^(-sh)) \div 2^20, (f.m \div 2^(-sh)) % 2^20>>

FixAdd(a, b) ==
    LET lo == a[2] + b[2]
    IN  <<a[1] + b[1] + lo \div 2^20, lo % 2^20>>

FixLe(a, b) == a[1] < b[1] \/ (a[1] = b[1] /\ a[2] <= b[2])

\* the sum of the table entries with index >= n, plus atan_table[15]
RECURSIVE TailPlusLast(_)
TailPlusLast(n) ==
    IF n >= 16 THEN Fix38(AtanTable[16])
    ELSE FixAdd(Fix38(AtanTable[n + 1]), TailPlusLast(n + 1))

\* C29: for every starting angle with |angle| <= PI_OVER_2, after iteration
\* i the accumulator z satisfies |z| <= (sum of the table entries with index
\* > i) + atan_table[15]; after the 16 micro-rotations |z| <= atan_table[15].
C29_ResidualAngle ==
    (pc = "rotate" /\ ~IsNaN(arg[1]) /\ FLe(Abs(angle), PI_OVER_2))
        => /\ Exact38(z)
           /\ FixLe(Fix38(z), TailPlusLast(i))
           /\ i = 16 => FLe(Abs(z), AtanTable[16])

\* the loop on PI_OVER_2 itself has finished with a residual angle that is
\* not zero
C29_Witness ==
    /\ pc = "rotate" /\ i = 16 /\ arg[1] = PI_OVER_2
    /\ ~IsZero(z) /\ FLe(Abs(z), AtanTable[16])

\* the Tween is in the state the claim describes: not looping, its time in
\* [0, duration], its duration |the duration passed to new|, start and end
\* as passed; reset has left the time at zero
C30_Fields ==
    /\ tween.loop_type = "NoLoop"
    /\ InterpolationType[tween.loop_type] < 2
    /\ FLe(F0, tween.time) /\ FLe(tween.time, tween.duration)
    /\ FLe(F0, tween.duration)
    /\ \/ FEq(tween.duration, created[3])
       \/ FEq(tween.duration, FNeg(created[3]))
    /\ tween.start = created[1] /\ tween.end = created[2]
    /\ called = "reset" => tween.time = F0

\* no method changes start, end, duration or loop_type
C30_Unchanged ==
    /\ tween'.start = tween.start /\ tween'.end = tween.end
    /\ tween'.duration = tween.duration
    /\ tween'.loop_type = tween.loop_type

\* C30: after Tween::new and any sequence of update, set_time and reset
\* calls with finite arguments, loop_type is still NoLoop (update always
\* takes the clamping branch), 0 <= time <= duration, and duration is the
\* absolute value of the duration passed to new and never changes; reset
\* sets time to 0 and leaves start, end and duration unchanged.
C30_TweenInvariant == [](C30_Fields) /\ [][C30_Unchanged]_vars

\* a Tween built with a negative duration has been advanced to its end by
\* update, in its third method call
C30_Witness ==
    /\ called = "update" /\ calls = 3 /\ FLt(created[3], F0)
    /\ FGt(tween.time, F0) /\ tween.time = tween.duration

====
